---- MODULE Spec2Model ----
(***************************************************************************)
(* A model of the r2d2 connection pool (src/src/lib.rs) running its        *)
(* creation jobs on the scheduled thread pool (src/src/task.rs).           *)
(*                                                                         *)
(* Threads: the thread that runs Pool::new (Main), the client threads that *)
(* call Pool::get and drop the PooledConnection they got, and the worker   *)
(* threads of the ScheduledThreadPool.  A step of a thread is one access   *)
(* to shared state: taking a mutex, a critical section up to the release   *)
(* of the mutex, or the return of a PoolManager call.                      *)
(***************************************************************************)
EXTENDS Integers, Sequences, FiniteSets, Bags

\* ---------------------------------------------------------------- bounds

MaxPoolSize == 2
MaxHelperTasks == 1
NumClients == 2
\* calls of run_after and run_at_fixed_rate on a thread pool used on its own
MaxJobs == 2
\* the clock stops here unless a job of a shut down thread pool is still due later
MaxTime == 2

\* ---------------------------------------------------------------- threads

NoThread == -1
Main == 0
Clients == 1 .. NumClients
AllWorkers == (NumClients + 1) .. (NumClients + MaxHelperTasks)

\* Option<C>::None for a local connection variable; connections are 1, 2, ...
NoConn == 0

VARIABLES
    \* Config (src/src/lib.rs:85)
    pool_size,          \* config.pool_size
    helper_tasks,       \* config.helper_tasks
    test_on_check_out,  \* config.test_on_check_out
    \* PoolInternals and SharedPool (src/src/lib.rs:76-90)
    conns,              \* internals.conns: RingBuf<C>
    num_conns,          \* internals.num_conns
    internals,          \* the thread that holds the Mutex<PoolInternals>
    cond,               \* the clients blocked in shared.cond.wait
    \* InnerPool and SharedPool of the thread pool (src/src/task.rs:44-52)
    queue,              \* inner.queue: BinaryHeap<Job>, a bag of jobs
    shutdown,           \* inner.shutdown
    inner,              \* the thread that holds the Mutex<InnerPool>
    cvar,               \* the workers blocked in shared.cvar.wait
    now,                \* time::precise_time_ns()
    \* Pool::new
    main_pc,            \* where the thread running Pool::new is
    main_i,             \* iterations of the loop of Pool::new done
    \* clients
    cpc,                \* where each client is
    cconn,              \* the connection a client holds (local or in its handle)
    cbroken,            \* put_back's local `broken`
    \* workers
    wpc,                \* where each worker is
    wjob,               \* the job a worker popped and is running
    wconn,              \* the connection a job holds between connect and push
    \* the manager and the error handler, as seen from outside
    connected,          \* number of connections manager.connect has returned
    destroyed,          \* connections that were dropped
    broken_seen,        \* connections for which has_broken returned true
    errors,             \* calls of error_handler.handle_error, by origin
    enqueued,           \* number of jobs add_connection pushed onto the thread pool's queue
    \* the closures given to the thread pool by its own callers
    submitted,          \* number of calls of run_after and run_at_fixed_rate
    panicked,           \* closures that panicked, by the call that gave them
    cancelled           \* closures that shutdown_now removed from the queue

cfg_vars == <<pool_size, helper_tasks, test_on_check_out>>
pool_vars == <<conns, num_conns, internals, cond>>
swp_vars == <<queue, shutdown, inner, cvar, now>>
main_vars == <<main_pc, main_i>>
client_vars == <<cpc, cconn, cbroken>>
worker_vars == <<wpc, wjob, wconn>>
ghost_vars == <<connected, destroyed, broken_seen, errors, enqueued>>
task_vars == <<submitted, panicked, cancelled>>
vars == <<cfg_vars, pool_vars, swp_vars, main_vars, client_vars, worker_vars, ghost_vars,
          task_vars>>

Workers == (NumClients + 1) .. (NumClients + helper_tasks)

\* ---------------------------------------------------------------- jobs

\* ScheduledThreadPool::run_after: a Once job due `dur` after now.
\* `f` names the closure: the one of add_connection is the only one the pool
\* submits.  `id` tells the closures of the other callers apart: it is the
\* number of the call that gave the closure, and 0 for add_connection.
OnceJob(dur, f) == [type_ |-> "Once", time |-> now + dur, f |-> f, rate |-> 0, id |-> 0]

\* ScheduledThreadPool::run_at_fixed_rate and the re-scheduling of
\* Worker::run_job: a FixedRate job due at `time`.
FixedRateJob(time, rate, id) ==
    [type_ |-> "FixedRate", time |-> time, f |-> "task", rate |-> rate, id |-> id]

\* A worker that runs no job.
NoJob == [type_ |-> "None", time |-> 0, f |-> "none", rate |-> 0, id |-> 0]

\* Job::cmp reversed on a max heap: BinaryHeap::peek is a job of least time.
IsPeek(job) ==
    /\ BagIn(job, queue)
    /\ \A other \in BagToSet(queue) : job.time <= other.time

\* The notification of SharedPool::run: the workers in cvar.wait are woken when
\* the queue is empty or its earliest job is later than the new one.
RunNotifies(job) ==
    \/ queue = EmptyBag
    \/ \E e \in BagToSet(queue) : IsPeek(e) /\ e.time > job.time

\* ---------------------------------------------------------------- Init

Init ==
    /\ pool_size \in 1 .. MaxPoolSize
    /\ helper_tasks \in 1 .. MaxHelperTasks
    /\ test_on_check_out \in BOOLEAN
    /\ conns = << >>
    /\ num_conns = pool_size
    /\ internals = NoThread
    /\ cond = {}
    /\ queue = EmptyBag
    /\ shutdown = FALSE
    /\ inner = NoThread
    /\ cvar = {}
    /\ now = 0
    /\ main_pc = "loop"
    /\ main_i = 0
    /\ cpc = [c \in Clients |-> "idle"]
    /\ cconn = [c \in Clients |-> NoConn]
    /\ cbroken = [c \in Clients |-> FALSE]
    /\ wpc = [w \in AllWorkers |-> IF w \in Workers THEN "get_job" ELSE "none"]
    /\ wjob = [w \in AllWorkers |-> NoJob]
    /\ wconn = [w \in AllWorkers |-> NoConn]
    /\ connected = 0
    /\ destroyed = {}
    /\ broken_seen = {}
    /\ errors = [connect |-> 0, is_valid |-> 0]
    /\ enqueued = 0
    /\ submitted = 0
    /\ panicked = {}
    /\ cancelled = {}

\* ---------------------------------------------------------------- Pool::new

\* add_connection, up to the lock of the internals: the guard of
\* `shared.internals.lock().unwrap()` lives to the end of the statement.
AddConnectionLock ==
    /\ main_pc = "loop"
    /\ main_i < pool_size
    /\ internals = NoThread
    /\ internals' = Main
    /\ main_pc' = "run"
    /\ UNCHANGED <<cfg_vars, task_vars, conns, num_conns, cond, swp_vars, main_i,
                   client_vars, worker_vars, ghost_vars>>

\* SharedPool::run of the thread pool, its lock.
RunLock ==
    /\ main_pc = "run"
    /\ inner = NoThread
    /\ inner' = Main
    /\ main_pc' = "push"
    /\ UNCHANGED <<cfg_vars, task_vars, pool_vars, queue, shutdown, cvar, now, main_i,
                   client_vars, worker_vars, ghost_vars>>

\* SharedPool::run of the thread pool under its lock, then the end of the
\* statement of add_connection, where both guards are released.
RunPush ==
    /\ main_pc = "push"
    /\ LET job == OnceJob(0, "add_connection") IN
        IF shutdown
        THEN UNCHANGED <<queue, cvar, enqueued>>
        ELSE /\ queue' = queue (+) SetToBag({job})
             /\ cvar' = IF RunNotifies(job) THEN {} ELSE cvar
             /\ enqueued' = enqueued + 1
    /\ inner' = NoThread
    /\ internals' = NoThread
    /\ main_i' = main_i + 1
    /\ main_pc' = "loop"
    /\ UNCHANGED <<cfg_vars, task_vars, conns, num_conns, cond, shutdown, now,
                   client_vars, worker_vars, connected, destroyed, broken_seen, errors>>

\* Pool::new returns Ok(Pool) when its loop is over.
NewReturn ==
    /\ main_pc = "loop"
    /\ main_i = pool_size
    /\ main_pc' = "done"
    /\ UNCHANGED <<cfg_vars, task_vars, pool_vars, swp_vars, main_i,
                   client_vars, worker_vars, ghost_vars>>

\* ---------------------------------------------------------------- Arc<SharedPool>

\* The strong references to the SharedPool: the Pool itself until it is
\* dropped, and the clone that every closure of add_connection owns, queued
\* or running.  This is whether one exists beside the closure worker w runs.
OtherOwners(w) ==
    \/ main_pc # "dropped"
    \/ \E job \in BagToSet(queue) : job.f = "add_connection"
    \/ \E v \in AllWorkers \ {w} : wjob[v].f = "add_connection"

\* A strong reference goes away and leaves `ready` as the ready queue.  With
\* the last one the SharedPool is dropped: the connections of the queue, then
\* the thread pool, whose Drop takes the mutex of the queue, sets shutdown and
\* notifies all workers.
ReleaseShared(last, ready) ==
    IF last
    THEN /\ inner = NoThread
         /\ conns' = << >>
         /\ destroyed' = destroyed \cup {ready[i] : i \in 1 .. Len(ready)}
         /\ shutdown' = TRUE
         /\ cvar' = {}
    ELSE /\ conns' = ready
         /\ UNCHANGED <<destroyed, shutdown, cvar>>

\* The Pool is dropped: no PooledConnection borrows it and no get runs.
PoolDrop ==
    /\ main_pc = "done"
    /\ \A c \in Clients : cpc[c] = "idle"
    /\ main_pc' = "dropped"
    /\ ReleaseShared(/\ \A job \in BagToSet(queue) : job.f # "add_connection"
                     /\ \A v \in AllWorkers : wjob[v].f # "add_connection",
                     conns)
    /\ UNCHANGED <<cfg_vars, task_vars, num_conns, internals, cond, queue, inner, now, main_i,
                   client_vars, worker_vars, connected, broken_seen, errors, enqueued>>

\* ---------------------------------------------------------------- workers

\* GetJob of a worker that exits as soon as it sees the shutdown flag.
GetJob_ExitsOnShutdown(w) ==
    /\ w \in Workers
    /\ wpc[w] = "get_job"
    /\ w \notin cvar
    /\ inner = NoThread
    /\ IF queue = EmptyBag \/ shutdown
       THEN /\ IF shutdown
               THEN /\ wpc' = [wpc EXCEPT ![w] = "exited"]
                    /\ cvar' = cvar
               ELSE /\ cvar' = cvar \cup {w}
                    /\ wpc' = wpc
            /\ UNCHANGED <<queue, wjob>>
       ELSE /\ \E job \in BagToSet(queue) :
                 /\ IsPeek(job)
                 /\ job.time <= now
                 /\ queue' = queue (-) SetToBag({job})
                 /\ wjob' = [wjob EXCEPT ![w] = job]
            /\ wpc' = [wpc EXCEPT ![w] = "run_job"]
            /\ cvar' = cvar
    /\ UNCHANGED <<cfg_vars, task_vars, pool_vars, shutdown, inner, now, main_vars,
                   client_vars, wconn, ghost_vars>>

\* GetJob that pops any job that is due, not the earliest one.
GetJob_AnyDue(w) ==
    /\ w \in Workers
    /\ wpc[w] = "get_job"
    /\ w \notin cvar
    /\ inner = NoThread
    /\ IF queue = EmptyBag
       THEN /\ IF shutdown
               THEN /\ wpc' = [wpc EXCEPT ![w] = "exited"]
                    /\ cvar' = cvar
               ELSE /\ cvar' = cvar \cup {w}
                    /\ wpc' = wpc
            /\ UNCHANGED <<queue, wjob>>
       ELSE /\ \E job \in BagToSet(queue) :
                 /\ job.time <= now
                 /\ queue' = queue (-) SetToBag({job})
                 /\ wjob' = [wjob EXCEPT ![w] = job]
            /\ wpc' = [wpc EXCEPT ![w] = "run_job"]
            /\ cvar' = cvar
    /\ UNCHANGED <<cfg_vars, task_vars, pool_vars, shutdown, inner, now, main_vars,
                   client_vars, wconn, ghost_vars>>

\* Worker::get_job, from its lock to the release of the guard: the worker
\* exits on an empty queue after shutdown, waits on cvar on an empty queue,
\* pops the earliest job when it is due, and otherwise sits in wait_timeout
\* until the job is due or a notification arrives (the guard below).
GetJob(w) ==
    /\ w \in Workers
    /\ wpc[w] = "get_job"
    /\ w \notin cvar
    /\ inner = NoThread
    /\ IF queue = EmptyBag
       THEN /\ IF shutdown
               THEN /\ wpc' = [wpc EXCEPT ![w] = "exited"]
                    /\ cvar' = cvar
               ELSE /\ cvar' = cvar \cup {w}
                    /\ wpc' = wpc
            /\ UNCHANGED <<queue, wjob>>
       ELSE /\ \E job \in BagToSet(queue) :
                 /\ IsPeek(job)
                 /\ job.time <= now
                 /\ queue' = queue (-) SetToBag({job})
                 /\ wjob' = [wjob EXCEPT ![w] = job]
            /\ wpc' = [wpc EXCEPT ![w] = "run_job"]
            /\ cvar' = cvar
    /\ UNCHANGED <<cfg_vars, task_vars, pool_vars, shutdown, inner, now, main_vars,
                   client_vars, wconn, ghost_vars>>

\* JobConnect that counts a resource for a failed connect and wakes a waiter.
JobConnect_CountsFailure(w) ==
    /\ w \in Workers
    /\ wpc[w] = "run_job"
    /\ wjob[w].f = "add_connection"
    /\ \E ok \in BOOLEAN :
         IF ok
         THEN /\ connected' = connected + 1
              /\ wconn' = [wconn EXCEPT ![w] = connected + 1]
              /\ wpc' = [wpc EXCEPT ![w] = "push"]
              /\ UNCHANGED <<errors, wjob, num_conns, conns, destroyed, shutdown, cvar>>
         ELSE /\ errors' = [errors EXCEPT !.connect = @ + 1]
              /\ num_conns' = num_conns + 1
              /\ wpc' = [wpc EXCEPT ![w] = "get_job"]
              /\ wjob' = [wjob EXCEPT ![w] = NoJob]
              /\ ReleaseShared(~OtherOwners(w), conns)
              /\ UNCHANGED <<connected, wconn>>
    /\ UNCHANGED <<cfg_vars, task_vars, internals, cond, queue, inner, now, main_vars, client_vars,
                   broken_seen, enqueued>>

\* Worker::run_job on the closure of add_connection, up to the return of
\* manager.connect(): Err goes to the error handler and ends the job, whose
\* closure gives up its reference to the SharedPool.
JobConnect(w) ==
    /\ w \in Workers
    /\ wpc[w] = "run_job"
    /\ wjob[w].f = "add_connection"
    /\ \E ok \in BOOLEAN :
         IF ok
         THEN /\ connected' = connected + 1
              /\ wconn' = [wconn EXCEPT ![w] = connected + 1]
              /\ wpc' = [wpc EXCEPT ![w] = "push"]
              /\ UNCHANGED <<errors, wjob, conns, destroyed, shutdown, cvar>>
         ELSE /\ errors' = [errors EXCEPT !.connect = @ + 1]
              /\ wpc' = [wpc EXCEPT ![w] = "get_job"]
              /\ wjob' = [wjob EXCEPT ![w] = NoJob]
              /\ ReleaseShared(~OtherOwners(w), conns)
              /\ UNCHANGED <<connected, wconn>>
    /\ UNCHANGED <<cfg_vars, task_vars, num_conns, internals, cond, queue, inner, now, main_vars,
                   client_vars, broken_seen, enqueued>>

\* A notify_one that is lost: it wakes nobody.
NotifyOne_Lost(waiters) ==
    {{}}

\* Condvar::notify_one: the sets of waiters it may wake.
NotifyOne(waiters) ==
    IF waiters = {} THEN {{}} ELSE {{c} : c \in waiters}

\* JobPush without shared.cond.notify_one().
JobPush_NoNotify(w) ==
    /\ w \in Workers
    /\ wpc[w] = "push"
    /\ internals = NoThread
    /\ num_conns' = num_conns + 1
    /\ cond' = cond
    /\ ReleaseShared(~OtherOwners(w), Append(conns, wconn[w]))
    /\ wconn' = [wconn EXCEPT ![w] = NoConn]
    /\ wjob' = [wjob EXCEPT ![w] = NoJob]
    /\ wpc' = [wpc EXCEPT ![w] = "get_job"]
    /\ UNCHANGED <<cfg_vars, task_vars, internals, queue, inner, now, main_vars, client_vars,
                   connected, broken_seen, errors, enqueued>>

\* JobPush whose closure never gives up its reference to the SharedPool.
JobPush_Leak(w) ==
    /\ w \in Workers
    /\ wpc[w] = "push"
    /\ internals = NoThread
    /\ num_conns' = num_conns + 1
    /\ \E woken \in NotifyOne(cond) : cond' = cond \ woken
    /\ ReleaseShared(FALSE, Append(conns, wconn[w]))
    /\ wconn' = [wconn EXCEPT ![w] = NoConn]
    /\ wjob' = [wjob EXCEPT ![w] = NoJob]
    /\ wpc' = [wpc EXCEPT ![w] = "get_job"]
    /\ UNCHANGED <<cfg_vars, task_vars, internals, queue, inner, now, main_vars, client_vars,
                   connected, broken_seen, errors, enqueued>>

\* The Ok arm of the closure of add_connection: lock, push_back, count,
\* notify_one, and the release of the guard; the job is over and the closure
\* gives up its reference to the SharedPool.
JobPush(w) ==
    /\ w \in Workers
    /\ wpc[w] = "push"
    /\ internals = NoThread
    /\ num_conns' = num_conns + 1
    /\ \E woken \in NotifyOne(cond) : cond' = cond \ woken
    /\ ReleaseShared(~OtherOwners(w), Append(conns, wconn[w]))
    /\ wconn' = [wconn EXCEPT ![w] = NoConn]
    /\ wjob' = [wjob EXCEPT ![w] = NoJob]
    /\ wpc' = [wpc EXCEPT ![w] = "get_job"]
    /\ UNCHANGED <<cfg_vars, task_vars, internals, queue, inner, now, main_vars, client_vars,
                   connected, broken_seen, errors, enqueued>>

\* ---------------------------------------------------------------- clients

\* A client calls Pool::get on the pool that Pool::new returned.
GetCall(c) ==
    /\ main_pc = "done"
    /\ cpc[c] = "idle"
    /\ cpc' = [cpc EXCEPT ![c] = "get_lock"]
    /\ UNCHANGED <<cfg_vars, task_vars, pool_vars, swp_vars, main_vars, cconn, cbroken,
                   worker_vars, ghost_vars>>

\* Pool::get takes the mutex: on entry, and again when cond.wait returns.
GetLock(c) ==
    /\ cpc[c] = "get_lock"
    /\ c \notin cond
    /\ internals = NoThread
    /\ internals' = c
    /\ cpc' = [cpc EXCEPT ![c] = "get_loop"]
    /\ UNCHANGED <<cfg_vars, task_vars, conns, num_conns, cond, swp_vars, main_vars,
                   cconn, cbroken, worker_vars, ghost_vars>>

\* GetLoop with front() in place of pop_front(): the connection stays queued.
GetLoop_NoPop(c) ==
    /\ cpc[c] = "get_loop"
    /\ internals = c
    /\ IF conns # << >>
       THEN /\ cconn' = [cconn EXCEPT ![c] = Head(conns)]
            /\ conns' = conns
            /\ cpc' = [cpc EXCEPT ![c] = IF test_on_check_out THEN "is_valid" ELSE "held"]
            /\ cond' = cond
       ELSE /\ cond' = cond \cup {c}
            /\ cpc' = [cpc EXCEPT ![c] = "get_lock"]
            /\ UNCHANGED <<conns, cconn>>
    /\ internals' = NoThread
    /\ UNCHANGED <<cfg_vars, task_vars, num_conns, swp_vars, main_vars, cbroken,
                   worker_vars, ghost_vars>>

\* GetLoop without drop(internals) before the health check: the guard lives on.
GetLoop_KeepsLock(c) ==
    /\ cpc[c] = "get_loop"
    /\ internals = c
    /\ IF conns # << >>
       THEN /\ cconn' = [cconn EXCEPT ![c] = Head(conns)]
            /\ conns' = Tail(conns)
            /\ cpc' = [cpc EXCEPT ![c] = IF test_on_check_out THEN "is_valid" ELSE "held"]
            /\ cond' = cond
            /\ internals' = IF test_on_check_out THEN c ELSE NoThread
       ELSE /\ cond' = cond \cup {c}
            /\ cpc' = [cpc EXCEPT ![c] = "get_lock"]
            /\ internals' = NoThread
            /\ UNCHANGED <<conns, cconn>>
    /\ UNCHANGED <<cfg_vars, task_vars, num_conns, swp_vars, main_vars, cbroken,
                   worker_vars, ghost_vars>>

\* GetLoop with pop_back() in place of pop_front(): the queue used as a stack.
GetLoop_PopBack(c) ==
    /\ cpc[c] = "get_loop"
    /\ internals = c
    /\ IF conns # << >>
       THEN /\ cconn' = [cconn EXCEPT ![c] = conns[Len(conns)]]
            /\ conns' = SubSeq(conns, 1, Len(conns) - 1)
            /\ cpc' = [cpc EXCEPT ![c] = IF test_on_check_out THEN "is_valid" ELSE "held"]
            /\ cond' = cond
       ELSE /\ cond' = cond \cup {c}
            /\ cpc' = [cpc EXCEPT ![c] = "get_lock"]
            /\ UNCHANGED <<conns, cconn>>
    /\ internals' = NoThread
    /\ UNCHANGED <<cfg_vars, task_vars, num_conns, swp_vars, main_vars, cbroken,
                   worker_vars, ghost_vars>>

\* One turn of the loop of Pool::get under the mutex: pop_front and
\* drop(internals), or cond.wait, which releases the mutex and blocks.
GetLoop(c) ==
    /\ cpc[c] = "get_loop"
    /\ internals = c
    /\ IF conns # << >>
       THEN /\ cconn' = [cconn EXCEPT ![c] = Head(conns)]
            /\ conns' = Tail(conns)
            /\ cpc' = [cpc EXCEPT ![c] = IF test_on_check_out THEN "is_valid" ELSE "held"]
            /\ cond' = cond
       ELSE /\ cond' = cond \cup {c}
            /\ cpc' = [cpc EXCEPT ![c] = "get_lock"]
            /\ UNCHANGED <<conns, cconn>>
    /\ internals' = NoThread
    /\ UNCHANGED <<cfg_vars, task_vars, num_conns, swp_vars, main_vars, cbroken,
                   worker_vars, ghost_vars>>

\* manager.is_valid returns: Ok makes the PooledConnection, Err goes to the
\* error handler.
IsValid(c) ==
    /\ cpc[c] = "is_valid"
    /\ \E ok \in BOOLEAN :
         IF ok
         THEN /\ cpc' = [cpc EXCEPT ![c] = "held"]
              /\ errors' = errors
         ELSE /\ cpc' = [cpc EXCEPT ![c] = "invalid"]
              /\ errors' = [errors EXCEPT !.is_valid = @ + 1]
    /\ UNCHANGED <<cfg_vars, task_vars, pool_vars, swp_vars, main_vars, cconn, cbroken,
                   worker_vars, connected, destroyed, broken_seen, enqueued>>

\* After a failed is_valid: lock again, num_conns -= 1, continue; the
\* connection goes out of scope and the loop turns with the mutex held.
GetInvalid(c) ==
    /\ cpc[c] = "invalid"
    /\ internals = NoThread
    /\ internals' = c
    /\ num_conns' = num_conns - 1
    /\ destroyed' = destroyed \cup {cconn[c]}
    /\ cconn' = [cconn EXCEPT ![c] = NoConn]
    /\ cpc' = [cpc EXCEPT ![c] = "get_loop"]
    /\ UNCHANGED <<cfg_vars, task_vars, conns, cond, swp_vars, main_vars, cbroken,
                   worker_vars, connected, broken_seen, errors, enqueued>>

\* Drop for PooledConnection calls put_back, which first asks has_broken.
HasBroken(c) ==
    /\ cpc[c] = "held"
    /\ \E b \in BOOLEAN :
         /\ cbroken' = [cbroken EXCEPT ![c] = b]
         /\ broken_seen' = IF b THEN broken_seen \cup {cconn[c]} ELSE broken_seen
    /\ cpc' = [cpc EXCEPT ![c] = "put_back"]
    /\ UNCHANGED <<cfg_vars, task_vars, pool_vars, swp_vars, main_vars, cconn,
                   worker_vars, connected, destroyed, errors, enqueued>>

\* PutBack that pushes the connection back and leaves it in the handle too.
PutBack_KeepsConn(c) ==
    /\ cpc[c] = "put_back"
    /\ internals = NoThread
    /\ IF cbroken[c]
       THEN /\ num_conns' = num_conns - 1
            /\ destroyed' = destroyed \cup {cconn[c]}
            /\ cconn' = [cconn EXCEPT ![c] = NoConn]
            /\ UNCHANGED <<conns, cond>>
       ELSE /\ conns' = Append(conns, cconn[c])
            /\ \E woken \in NotifyOne(cond) : cond' = cond \ woken
            /\ UNCHANGED <<num_conns, destroyed, cconn>>
    /\ cbroken' = [cbroken EXCEPT ![c] = FALSE]
    /\ cpc' = [cpc EXCEPT ![c] = "idle"]
    /\ UNCHANGED <<cfg_vars, task_vars, internals, swp_vars, main_vars, worker_vars,
                   connected, broken_seen, errors, enqueued>>

\* PutBack that does not look at `broken`: every connection is queued again.
PutBack_IgnoresBroken(c) ==
    /\ cpc[c] = "put_back"
    /\ internals = NoThread
    /\ conns' = Append(conns, cconn[c])
    /\ \E woken \in NotifyOne(cond) : cond' = cond \ woken
    /\ UNCHANGED <<num_conns, destroyed>>
    /\ cconn' = [cconn EXCEPT ![c] = NoConn]
    /\ cbroken' = [cbroken EXCEPT ![c] = FALSE]
    /\ cpc' = [cpc EXCEPT ![c] = "idle"]
    /\ UNCHANGED <<cfg_vars, task_vars, internals, swp_vars, main_vars, worker_vars,
                   connected, broken_seen, errors, enqueued>>

\* PutBack without shared.cond.notify_one().
PutBack_NoNotify(c) ==
    /\ cpc[c] = "put_back"
    /\ internals = NoThread
    /\ IF cbroken[c]
       THEN /\ num_conns' = num_conns - 1
            /\ destroyed' = destroyed \cup {cconn[c]}
            /\ UNCHANGED <<conns, cond>>
       ELSE /\ conns' = Append(conns, cconn[c])
            /\ cond' = cond
            /\ UNCHANGED <<num_conns, destroyed>>
    /\ cconn' = [cconn EXCEPT ![c] = NoConn]
    /\ cbroken' = [cbroken EXCEPT ![c] = FALSE]
    /\ cpc' = [cpc EXCEPT ![c] = "idle"]
    /\ UNCHANGED <<cfg_vars, task_vars, internals, swp_vars, main_vars, worker_vars,
                   connected, broken_seen, errors, enqueued>>

\* PutBack with num_conns -= 1 outside the test of `broken`.
PutBack_AlwaysDecrements(c) ==
    /\ cpc[c] = "put_back"
    /\ internals = NoThread
    /\ num_conns' = num_conns - 1
    /\ IF cbroken[c]
       THEN /\ destroyed' = destroyed \cup {cconn[c]}
            /\ UNCHANGED <<conns, cond>>
       ELSE /\ conns' = Append(conns, cconn[c])
            /\ \E woken \in NotifyOne(cond) : cond' = cond \ woken
            /\ UNCHANGED <<destroyed>>
    /\ cconn' = [cconn EXCEPT ![c] = NoConn]
    /\ cbroken' = [cbroken EXCEPT ![c] = FALSE]
    /\ cpc' = [cpc EXCEPT ![c] = "idle"]
    /\ UNCHANGED <<cfg_vars, task_vars, internals, swp_vars, main_vars, worker_vars,
                   connected, broken_seen, errors, enqueued>>

\* The rest of put_back: lock, then num_conns -= 1 on a broken connection
\* (dropped on return) or push_back and notify_one; the guard is released.
PutBack(c) ==
    /\ cpc[c] = "put_back"
    /\ internals = NoThread
    /\ IF cbroken[c]
       THEN /\ num_conns' = num_conns - 1
            /\ destroyed' = destroyed \cup {cconn[c]}
            /\ UNCHANGED <<conns, cond>>
       ELSE /\ conns' = Append(conns, cconn[c])
            /\ \E woken \in NotifyOne(cond) : cond' = cond \ woken
            /\ UNCHANGED <<num_conns, destroyed>>
    /\ cconn' = [cconn EXCEPT ![c] = NoConn]
    /\ cbroken' = [cbroken EXCEPT ![c] = FALSE]
    /\ cpc' = [cpc EXCEPT ![c] = "idle"]
    /\ UNCHANGED <<cfg_vars, task_vars, internals, swp_vars, main_vars, worker_vars,
                   connected, broken_seen, errors, enqueued>>

\* Condvar::wait may return without a notification.
SpuriousWake(c) ==
    /\ c \in cond
    /\ cond' = cond \ {c}
    /\ UNCHANGED <<cfg_vars, task_vars, conns, num_conns, internals, swp_vars, main_vars,
                   client_vars, worker_vars, ghost_vars>>

\* ---------------------------------------------------------------- Spec

Next ==
    \/ AddConnectionLock
    \/ RunLock
    \/ RunPush
    \/ NewReturn
    \/ PoolDrop
    \/ \E w \in AllWorkers : GetJob(w)
    \/ \E w \in AllWorkers : JobConnect(w)
    \/ \E w \in AllWorkers : JobPush(w)
    \/ \E c \in Clients : GetCall(c)
    \/ \E c \in Clients : GetLock(c)
    \/ \E c \in Clients : GetLoop(c)
    \/ \E c \in Clients : IsValid(c)
    \/ \E c \in Clients : GetInvalid(c)
    \/ \E c \in Clients : HasBroken(c)
    \/ \E c \in Clients : PutBack(c)
    \/ \E c \in Clients : SpuriousWake(c)

Spec == Init /\ [][Next]_vars

\* Every thread that can take a step does so in the end.  The mutex of the
\* internals can be taken over and over by clients that wake up and wait
\* again, so the creation jobs that need it get strong fairness: the mutex
\* goes to a job in the end when jobs keep asking for it.  Calling get,
\* dropping a handle and a wake-up without notification are up to the
\* environment.
Fairness ==
    /\ WF_vars(AddConnectionLock) /\ WF_vars(RunLock) /\ WF_vars(RunPush)
    /\ WF_vars(NewReturn)
    /\ \A w \in AllWorkers : WF_vars(GetJob(w)) /\ WF_vars(JobConnect(w))
    /\ SF_vars(\E w \in AllWorkers : JobPush(w))
    /\ \A c \in Clients :
         /\ WF_vars(GetLock(c)) /\ WF_vars(GetLoop(c)) /\ WF_vars(IsValid(c))
         /\ WF_vars(GetInvalid(c)) /\ WF_vars(PutBack(c))

FairSpec == Spec /\ Fairness

\* ---------------------------------------------------------------- ScheduledThreadPool

\* A ScheduledThreadPool used on its own, as the tests of src/src/task.rs do:
\* one thread owns it, submits closures, and drops it or calls shutdown_now.

\* ScheduledThreadPool::new(helper_tasks): no Pool exists.
SwpInit ==
    /\ pool_size = 0
    /\ helper_tasks \in 1 .. MaxHelperTasks
    /\ test_on_check_out = FALSE
    /\ conns = << >>
    /\ num_conns = 0
    /\ internals = NoThread
    /\ cond = {}
    /\ queue = EmptyBag
    /\ shutdown = FALSE
    /\ inner = NoThread
    /\ cvar = {}
    /\ now = 0
    /\ main_pc = "swp"
    /\ main_i = 0
    /\ cpc = [c \in Clients |-> "idle"]
    /\ cconn = [c \in Clients |-> NoConn]
    /\ cbroken = [c \in Clients |-> FALSE]
    /\ wpc = [w \in AllWorkers |-> IF w \in Workers THEN "get_job" ELSE "none"]
    /\ wjob = [w \in AllWorkers |-> NoJob]
    /\ wconn = [w \in AllWorkers |-> NoConn]
    /\ connected = 0
    /\ destroyed = {}
    /\ broken_seen = {}
    /\ errors = [connect |-> 0, is_valid |-> 0]
    /\ enqueued = 0
    /\ submitted = 0
    /\ panicked = {}
    /\ cancelled = {}

\* Run that pushes the job whatever the shutdown flag says.
Run_IgnoresShutdown(job) ==
    /\ inner = NoThread
    /\ queue' = queue (+) SetToBag({job})
    /\ cvar' = IF RunNotifies(job) THEN {} ELSE cvar

\* SharedPool::run, from its lock to the release of the guard.
Run(job) ==
    /\ inner = NoThread
    /\ IF shutdown
       THEN UNCHANGED <<queue, cvar>>
       ELSE /\ queue' = queue (+) SetToBag({job})
            /\ cvar' = IF RunNotifies(job) THEN {} ELSE cvar

\* ScheduledThreadPool::run_after (and run, which is run_after of zero).
RunAfter ==
    /\ main_pc = "swp"
    /\ submitted < MaxJobs
    /\ \E dur \in 0 .. MaxTime :
         /\ now + dur <= MaxTime
         /\ Run([OnceJob(dur, "task") EXCEPT !.id = submitted + 1])
    /\ submitted' = submitted + 1
    /\ UNCHANGED <<cfg_vars, pool_vars, shutdown, inner, now, main_vars, client_vars,
                   worker_vars, ghost_vars, panicked, cancelled>>

\* ScheduledThreadPool::run_at_fixed_rate.
RunAtFixedRate ==
    /\ main_pc = "swp"
    /\ submitted < MaxJobs
    /\ \E rate \in 1 .. MaxTime :
         /\ now + rate <= MaxTime
         /\ Run(FixedRateJob(now + rate, rate, submitted + 1))
    /\ submitted' = submitted + 1
    /\ UNCHANGED <<cfg_vars, pool_vars, shutdown, inner, now, main_vars, client_vars,
                   worker_vars, ghost_vars, panicked, cancelled>>

\* The closures of the jobs in the queue.
Queued == {job.id : job \in BagToSet(queue)}

\* ShutdownNow that leaves the queue as it is.
ShutdownNow_KeepsQueue ==
    /\ main_pc = "swp"
    /\ inner = NoThread
    /\ queue' = queue
    /\ cancelled' = cancelled \cup Queued
    /\ main_pc' = "cleared"
    /\ UNCHANGED <<cfg_vars, pool_vars, shutdown, inner, cvar, now, main_i, client_vars,
                   worker_vars, ghost_vars, submitted, panicked>>

\* ScheduledThreadPool::shutdown_now, its only statement: queue.clear() under
\* the lock.  The pool it consumed is dropped after it (ThreadPoolDrop).
ShutdownNow ==
    /\ main_pc = "swp"
    /\ inner = NoThread
    /\ queue' = EmptyBag
    /\ cancelled' = cancelled \cup Queued
    /\ main_pc' = "cleared"
    /\ UNCHANGED <<cfg_vars, pool_vars, shutdown, inner, cvar, now, main_i, client_vars,
                   worker_vars, ghost_vars, submitted, panicked>>

\* Drop for ScheduledThreadPool, of a pool that goes out of scope or at the
\* end of shutdown_now, which returns with it.
ThreadPoolDrop ==
    /\ main_pc \in {"swp", "cleared"}
    /\ inner = NoThread
    /\ shutdown' = TRUE
    /\ cvar' = {}
    /\ main_pc' = IF main_pc = "cleared" THEN "shut_down" ELSE "swp_dropped"
    /\ UNCHANGED <<cfg_vars, task_vars, pool_vars, queue, inner, now, main_i, client_vars,
                   worker_vars, ghost_vars>>

\* time::precise_time_ns() grows.
Tick ==
    /\ \/ now < MaxTime
       \/ shutdown /\ \E job \in BagToSet(queue) : job.time > now
    /\ now' = now + 1
    /\ UNCHANGED <<cfg_vars, task_vars, pool_vars, queue, shutdown, inner, cvar, main_vars,
                   client_vars, worker_vars, ghost_vars>>

\* RunJob whose panic ends the worker without a new one.
RunJob_NoRespawn(w) ==
    /\ w \in Workers
    /\ wpc[w] = "run_job"
    /\ wjob[w].f = "task"
    /\ \E panics \in BOOLEAN :
         IF panics
         THEN /\ panicked' = panicked \cup {wjob[w].id}
              /\ wjob' = [wjob EXCEPT ![w] = NoJob]
              /\ wpc' = [wpc EXCEPT ![w] = "dead"]
         ELSE /\ panicked' = panicked
              /\ IF wjob[w].type_ = "FixedRate"
                 THEN /\ wpc' = [wpc EXCEPT ![w] = "resched"]
                      /\ wjob' = wjob
                 ELSE /\ wpc' = [wpc EXCEPT ![w] = "get_job"]
                      /\ wjob' = [wjob EXCEPT ![w] = NoJob]
    /\ UNCHANGED <<cfg_vars, pool_vars, swp_vars, main_vars, client_vars, wconn,
                   ghost_vars, submitted, cancelled>>

\* Worker::run_job, the call of the closure.  A closure that returns ends a
\* Once job and leaves a FixedRate job to be scheduled again.  A panic
\* unwinds the thread: the closure is dropped, and so is the Worker, whose
\* Drop spawns a thread with a new Worker that takes the place of this one.
RunJob(w) ==
    /\ w \in Workers
    /\ wpc[w] = "run_job"
    /\ wjob[w].f = "task"
    /\ \E panics \in BOOLEAN :
         IF panics
         THEN /\ panicked' = panicked \cup {wjob[w].id}
              /\ wjob' = [wjob EXCEPT ![w] = NoJob]
              /\ wpc' = [wpc EXCEPT ![w] = "get_job"]
         ELSE /\ panicked' = panicked
              /\ IF wjob[w].type_ = "FixedRate"
                 THEN /\ wpc' = [wpc EXCEPT ![w] = "resched"]
                      /\ wjob' = wjob
                 ELSE /\ wpc' = [wpc EXCEPT ![w] = "get_job"]
                      /\ wjob' = [wjob EXCEPT ![w] = NoJob]
    /\ UNCHANGED <<cfg_vars, pool_vars, swp_vars, main_vars, client_vars, wconn,
                   ghost_vars, submitted, cancelled>>

\* Worker::run_job after the closure of a FixedRate job returned: the job
\* goes back to SharedPool::run, one rate after the time it was due.
Reschedule(w) ==
    /\ w \in Workers
    /\ wpc[w] = "resched"
    /\ Run(FixedRateJob(wjob[w].time + wjob[w].rate, wjob[w].rate, wjob[w].id))
    /\ wjob' = [wjob EXCEPT ![w] = NoJob]
    /\ wpc' = [wpc EXCEPT ![w] = "get_job"]
    /\ UNCHANGED <<cfg_vars, task_vars, pool_vars, shutdown, inner, now, main_vars,
                   client_vars, wconn, ghost_vars>>

SwpNext ==
    \/ RunAfter
    \/ RunAtFixedRate
    \/ ShutdownNow
    \/ ThreadPoolDrop
    \/ Tick
    \/ \E w \in AllWorkers : GetJob(w)
    \/ \E w \in AllWorkers : RunJob(w)
    \/ \E w \in AllWorkers : Reschedule(w)

SwpSpec == SwpInit /\ [][SwpNext]_vars

\* The clock runs, every worker that can take a step does so in the end,
\* and shutdown_now gets to the drop of the pool it consumed.
SwpFairness ==
    /\ WF_vars(Tick)
    /\ WF_vars(main_pc = "cleared" /\ ThreadPoolDrop)
    /\ \A w \in AllWorkers :
         WF_vars(GetJob(w)) /\ WF_vars(RunJob(w)) /\ WF_vars(Reschedule(w))

SwpFairSpec == SwpSpec /\ SwpFairness

\* ---------------------------------------------------------------- views

\* The connections in the ready queue.
Ready == {conns[i] : i \in 1 .. Len(conns)}

\* The clients that own a PooledConnection: get has returned it and the
\* put_back of its drop has not finished.
Handles == {c \in Clients : cpc[c] \in {"held", "put_back"}}

\* The number of parties that hold connection r.
Owners(r) ==
    Cardinality({i \in 1 .. Len(conns) : conns[i] = r})
    + Cardinality({c \in Clients : cconn[c] = r})
    + Cardinality({w \in AllWorkers : wconn[w] = r})

\* ---------------------------------------------------------------- claims

\* C1: from the end of Pool::new on, num_conns is at most pool_size.
\* (Stated as claimed; the code counts every connection twice.)
C1_LiveCountAtMostPoolSize ==
    main_pc = "done" => num_conns <= pool_size

\* C2: every live connection has exactly one owner (the ready queue, one
\* client -- as the local of get, in its PooledConnection or as the argument
\* of put_back -- or one creation job before its push), and a dropped
\* connection has none.
C2_OneOwner ==
    \A r \in 1 .. connected : Owners(r) = IF r \in destroyed THEN 0 ELSE 1

\* C2 witness: one connection is in a handle while another sits in the queue.
C2_Witness ==
    /\ \E c \in Clients : cpc[c] = "held" /\ cconn[c] # NoConn
    /\ Len(conns) = 1
    /\ destroyed = {}

\* C3: the number of outstanding PooledConnections never exceeds pool_size,
\* so with pool_size of them out no further get has returned.
C3_HandlesAtMostPoolSize ==
    Cardinality(Handles) <= pool_size

\* C3 witness: pool_size handles are out and one more client is blocked in
\* cond.wait inside get.
C3_Witness ==
    /\ Cardinality({c \in Clients : cpc[c] = "held"}) = pool_size
    /\ \E c \in Clients : cpc[c] = "get_lock" /\ c \in cond

\* At least pool_size clients have called get and not given a handle back.
C4_GetsCalled ==
    Cardinality({c \in Clients : cpc[c] \in {"get_lock", "get_loop", "is_valid", "held"}})
        >= pool_size

\* What takes a run out of the case of C4: a connect or a health check that
\* failed, a connection found broken, or a handle being given back.
C4_Excused ==
    \/ errors.connect > 0
    \/ errors.is_valid > 0
    \/ broken_seen # {}
    \/ \E c \in Clients : cpc[c] \in {"invalid", "put_back"}

\* C4: when Pool::new has returned it has pushed exactly pool_size jobs (one
\* per turn of its loop, waiting for no connect), and once pool_size clients
\* are in get, with every connect succeeding, no health check failing and no
\* handle given back, pool_size clients come to hold a handle.
C4_NewEnqueuesAndGetsReturn ==
    /\ [](enqueued = main_i /\ (main_pc = "done" => enqueued = pool_size))
    /\ [](C4_GetsCalled =>
            <>(Cardinality({c \in Clients : cpc[c] = "held"}) >= pool_size \/ C4_Excused))

\* C4 witness: Pool::new has returned, two connects succeeded and both
\* clients hold a handle.
C4_Witness ==
    /\ main_pc = "done"
    /\ pool_size >= 2
    /\ enqueued = pool_size
    /\ errors.connect = 0
    /\ Cardinality({c \in Clients : cpc[c] = "held"}) = pool_size

\* C5: a client inside manager.is_valid does not hold the mutex of the
\* internals, so another client can take it.
C5_UnlockedDuringIsValid ==
    \A c \in Clients : cpc[c] = "is_valid" => internals # c

\* C5 witness: with test_on_check_out and two connections, one client is
\* inside is_valid while another holds the mutex, about to pop the other
\* connection.
C5_Witness ==
    /\ test_on_check_out
    /\ \E c1, c2 \in Clients :
         /\ cpc[c1] = "is_valid"
         /\ cpc[c2] = "get_loop"
         /\ internals = c2
         /\ conns # << >>

\* The put_back of a broken connection, as a step of client c.
BrokenPutBack(c) ==
    cpc[c] = "put_back" /\ cbroken[c] /\ cpc'[c] = "idle"

\* C6: the put_back of a broken connection decrements num_conns and pushes a
\* creation job.  (Stated as claimed; put_back never calls add_connection.)
C6_BrokenIsReplaced ==
    [][\A c \in Clients :
         BrokenPutBack(c) => num_conns' = num_conns - 1 /\ enqueued' = enqueued + 1]_vars

\* C7: a connection for which has_broken returned true is never queued again
\* and never handed out again: it stays with the put_back that found it
\* broken and is dropped when that returns; the error handler is not called
\* by the drop of the handle.
C7_BrokenIsDiscarded ==
    /\ [](\A r \in broken_seen :
            /\ r \notin Ready
            /\ \A w \in AllWorkers : wconn[w] # r
            /\ \A c \in Clients : cconn[c] = r => cpc[c] = "put_back" /\ cbroken[c]
            /\ r \in destroyed \/ \E c \in Clients : cconn[c] = r)
    /\ [][\A c \in Clients :
            (cpc[c] \in {"held", "put_back"} /\ cpc'[c] # cpc[c]) => errors' = errors]_vars

\* C7 witness: a broken connection has been dropped and another connection
\* is out in a handle.
C7_Witness ==
    /\ broken_seen # {}
    /\ broken_seen \subseteq destroyed
    /\ \E c \in Clients : cpc[c] = "held" /\ cconn[c] \notin broken_seen

\* The handling of a failed health check, as a step of client c.
InvalidHandled(c) ==
    cpc[c] = "invalid" /\ cpc'[c] = "get_loop"

\* C8: after a failed health check the error has been reported, the
\* connection is dropped, num_conns goes down by one, a creation job is
\* pushed and get goes round its loop.  (Stated as claimed; get never calls
\* add_connection.)
C8_InvalidIsReplaced ==
    [][\A c \in Clients :
         InvalidHandled(c) =>
            /\ errors.is_valid > 0
            /\ cconn[c] \in destroyed' /\ cconn'[c] = NoConn
            /\ num_conns' = num_conns - 1
            /\ enqueued' = enqueued + 1]_vars

\* A creation job that ends on a failed connect, as a step of worker w.
ConnectFailed(w) ==
    wpc[w] = "run_job" /\ wpc'[w] = "get_job"

\* C9: a creation job whose connect fails calls the error handler once and
\* does nothing else: no push, no change of num_conns, no waiter woken, no
\* job pushed onto the thread pool.  (The ready queue only changes when the
\* job held the last reference to the SharedPool of a dropped Pool.)
C9_ConnectFailureOnlyReports ==
    [][\A w \in AllWorkers :
         ConnectFailed(w) =>
            /\ errors' = [errors EXCEPT !.connect = @ + 1]
            /\ Len(conns') <= Len(conns)
            /\ conns' # conns => main_pc = "dropped" /\ shutdown'
            /\ UNCHANGED <<num_conns, cond, queue, enqueued, connected>>]_vars

\* C9 witness: a connect has failed and its worker is back in get_job,
\* while a client waits for a connection.
C9_Witness ==
    /\ errors.connect > 0
    /\ \A w \in Workers : wpc[w] = "get_job"
    /\ cond # {}

\* No creation job is between connect and push, no get between pop and the
\* making of the handle.
Quiescent ==
    /\ \A w \in AllWorkers : wconn[w] = NoConn
    /\ \A c \in Clients : cpc[c] \notin {"is_valid", "invalid"}

\* C10: in a quiescent state of the pool that Pool::new returned, num_conns is
\* the length of the ready queue plus the number of outstanding handles.
\* (Stated as claimed; fails with C1.)
C10_LiveCountIsReadyPlusHandles ==
    (main_pc = "done" /\ Quiescent) => num_conns = Len(conns) + Cardinality(Handles)

\* The end of put_back, as a step of client c.
PutBackDone(c) ==
    cpc[c] = "put_back" /\ cpc'[c] = "idle"

\* C11: the put_back of a connection that is not broken appends it to the
\* ready queue and takes exactly one client out of cond.wait when one is
\* there; the put_back of a broken one queues nothing and wakes nobody.
C11_ReturnWakesOne ==
    [][\A c \in Clients :
         PutBackDone(c) =>
            IF cbroken[c]
            THEN conns' = conns /\ cond' = cond
            ELSE /\ conns' = Append(conns, cconn[c])
                 /\ cond' \subseteq cond
                 /\ Cardinality(cond \ cond') = IF cond = {} THEN 0 ELSE 1]_vars

\* C11 witness: a client is in put_back with a connection that is not
\* broken, the mutex is free, and another client is blocked in cond.wait.
C11_Witness ==
    \E c1, c2 \in Clients :
        /\ cpc[c1] = "put_back"
        /\ ~cbroken[c1]
        /\ internals = NoThread
        /\ c2 \in cond

\* C12: the ready queue only changes by get taking its first connection or
\* by a return or a creation job appending one at its end (and by the drop
\* of the SharedPool, which ends it).
C12_ReadyQueueIsFifo ==
    [][conns' # conns =>
         \/ /\ conns # << >>
            /\ conns' = Tail(conns)
            /\ \E c \in Clients : cconn[c] = NoConn /\ cconn'[c] = Head(conns)
         \/ \E c \in Clients : PutBackDone(c) /\ conns' = Append(conns, cconn[c])
         \/ \E w \in AllWorkers : wconn[w] # NoConn /\ conns' = Append(conns, wconn[w])
         \/ main_pc' = "dropped" /\ shutdown' /\ conns' = << >>]_vars

\* C12 witness: connection 1 came back behind connection 2 and get handed out
\* connection 2, the older entry of the queue.
C12_Witness ==
    /\ conns = <<1>>
    /\ \E c \in Clients : cpc[c] = "held" /\ cconn[c] = 2
    /\ \E c \in Clients : cpc[c] = "idle"

\* The ready queue as a multiset.
ReadyBag ==
    [r \in Ready |-> Cardinality({i \in 1 .. Len(conns) : conns[i] = r})]

\* C13: with no failed health check and has_broken false, the pop of get
\* takes one connection out of the ready queue and leaves num_conns alone,
\* the client keeps that connection until put_back, and put_back puts the
\* same connection back and leaves num_conns alone: get followed by drop
\* changes neither num_conns nor the multiset of the queue.
C13_GetThenDropIsNeutral ==
    [][\A c \in Clients :
         /\ (cpc[c] = "get_loop" /\ cpc'[c] \in {"is_valid", "held"}) =>
               /\ num_conns' = num_conns
               /\ ReadyBag' (+) SetToBag({cconn'[c]}) = ReadyBag
         /\ (cpc[c] \in {"is_valid", "held"} /\ cpc'[c] \in {"held", "put_back"}) =>
               cconn'[c] = cconn[c]
         /\ (PutBackDone(c) /\ ~cbroken[c]) =>
               /\ num_conns' = num_conns
               /\ ReadyBag' = ReadyBag (+) SetToBag({cconn[c]})]_vars

\* C13 witness: both clients are idle again, nothing was found broken or
\* invalid, and the two connections sit in the queue in the other order.
C13_Witness ==
    /\ conns = <<2, 1>>
    /\ \A c \in Clients : cpc[c] = "idle"
    /\ destroyed = {}
    /\ num_conns = pool_size + 2

\* ---------------------------------------------------------------- C14

\* Every creation job has run to its end, the SharedPool is gone with its
\* thread pool, and every connection ever made has been destroyed.
Drained ==
    /\ queue = EmptyBag
    /\ \A w \in AllWorkers : wjob[w] = NoJob
    /\ connected + errors.connect = enqueued
    /\ shutdown
    /\ conns = << >>
    /\ 1 .. connected \subseteq destroyed

\* C14: once the Pool is dropped, a creation job leaves the queue only by a
\* worker taking it to run, and eventually every job has completed, the
\* last reference to the SharedPool is released and every connection, ready
\* at the drop or pushed after it, is destroyed.
C14_DropDestroysEverything ==
    /\ [][main_pc = "dropped" /\ queue' # queue =>
            \E w \in AllWorkers :
                /\ wjob[w] = NoJob
                /\ wjob'[w] # NoJob
                /\ queue = queue' (+) SetToBag({wjob'[w]})]_vars
    /\ (main_pc = "dropped") ~> Drained

\* Dropped with a connection ready and a job about to push another.
C14_Witness ==
    /\ main_pc = "dropped"
    /\ ~shutdown
    /\ conns # << >>
    /\ \E w \in AllWorkers : wpc[w] = "push"

\* ---------------------------------------------------------------- C15

\* C15: the mutex of the pool internals and the mutex of the queue of the
\* thread pool are never held at the same time.
C15_NeverBothHeld ==
    ~(internals # NoThread /\ inner # NoThread)

\* ---------------------------------------------------------------- C16

\* Worker w comes back from get_job with a job.
Takes(w) == wpc[w] = "get_job" /\ wpc'[w] = "run_job"

\* C16: the job a worker takes was in the queue, is due (its time is not
\* after now), and no job of the queue at that moment has an earlier time.
C16_EarliestDueFirst ==
    [][\A w \in AllWorkers : Takes(w) =>
          /\ BagIn(wjob'[w], queue)
          /\ wjob'[w].time <= now
          /\ \A other \in BagToSet(queue) : wjob'[w].time <= other.time]_vars

\* A worker runs a Once job while a Once job submitted before it, with a
\* later time, is still in the queue.
C16_Witness ==
    \E w \in AllWorkers : \E job \in BagToSet(queue) :
        /\ wpc[w] = "run_job"
        /\ wjob[w].type_ = "Once" /\ job.type_ = "Once"
        /\ job.id < wjob[w].id
        /\ wjob[w].time < job.time

\* ---------------------------------------------------------------- C17

\* C17: once the thread pool is dropped, a job leaves the queue only by a
\* worker taking it to run, a worker exits only on an empty queue, and in
\* the end the queue is empty, no job is running and every worker has exited.
C17_DropDrainsThenExits ==
    /\ [][main_pc = "swp_dropped" =>
            /\ queue' # queue =>
                  \E w \in AllWorkers : Takes(w) /\ queue = queue' (+) SetToBag({wjob'[w]})
            /\ \A w \in AllWorkers :
                  wpc[w] # "exited" /\ wpc'[w] = "exited" => queue = EmptyBag]_vars
    /\ (main_pc = "swp_dropped") ~>
          /\ queue = EmptyBag
          /\ \A w \in Workers : wpc[w] = "exited" /\ wjob[w] = NoJob

\* The pool was dropped, not shut down, while a worker runs a job and a job
\* that is not due yet is pending.
C17_Witness ==
    /\ main_pc = "swp_dropped"
    /\ cancelled = {}
    /\ \E job \in BagToSet(queue) : job.time > now
    /\ \E w \in AllWorkers : wpc[w] = "run_job"

\* ---------------------------------------------------------------- C18

\* Worker w is through with the FixedRate job whose closure returned.
Rescheduled(w) == wpc[w] = "resched" /\ wpc'[w] # "resched"

\* C18: once the shutdown flag is set the queue never grows; a FixedRate job
\* whose closure returns after that is dropped, not pushed again; and an
\* iteration that is pending in the queue still gets to run.
C18_NoRescheduleAfterShutdown ==
    /\ [][shutdown =>
            /\ queue' \sqsubseteq queue
            /\ \A w \in AllWorkers : Rescheduled(w) =>
                  /\ queue' = queue
                  /\ wjob'[w] = NoJob
                  /\ wjob[w].id \notin {job.id : job \in BagToSet(queue')}]_vars
    /\ \A id \in 1 .. MaxJobs :
          (shutdown /\ \E job \in BagToSet(queue) : job.id = id /\ job.type_ = "FixedRate")
            ~> (\E w \in AllWorkers : wpc[w] = "run_job" /\ wjob[w].id = id)

\* The closure of a FixedRate job has returned on a pool that is shut down.
C18_Witness ==
    /\ shutdown
    /\ \E w \in AllWorkers : wpc[w] = "resched" /\ wjob[w].type_ = "FixedRate"

\* ---------------------------------------------------------------- C19

\* C19: shutdown_now empties the queue and touches no worker, so the jobs
\* that workers have taken go on; and a closure that was in the queue at
\* that moment is never in the queue or in the hands of a worker again.
C19_ShutdownNowCancelsPending ==
    /\ [][main_pc = "swp" /\ main_pc' = "cleared" =>
            /\ queue' = EmptyBag
            /\ cancelled' = cancelled \cup {job.id : job \in BagToSet(queue)}
            /\ UNCHANGED <<wpc, wjob>>]_vars
    /\ [](\A id \in cancelled :
            /\ \A job \in BagToSet(queue) : job.id # id
            /\ \A w \in AllWorkers : wjob[w].id # id)

\* shutdown_now removed a job while a worker was running another.
C19_Witness ==
    /\ main_pc \in {"cleared", "shut_down"}
    /\ cancelled # {}
    /\ \E w \in AllWorkers : wpc[w] = "run_job"

\* ---------------------------------------------------------------- C20

\* The worker threads that are running.
LiveWorkers == {w \in Workers : wpc[w] \in {"get_job", "run_job", "resched"}}

\* C20: whatever panicked, the thread pool has all its workers until it is
\* shut down, and after that the only workers missing are those that exited;
\* a closure that panicked is never in the queue or in the hands of a worker
\* again; and a job in the queue gets to run unless shutdown_now removes it.
C20_PanicKeepsWorkers ==
    /\ [](/\ \A w \in Workers : w \in LiveWorkers \/ (wpc[w] = "exited" /\ shutdown)
          /\ ~shutdown => Cardinality(LiveWorkers) = helper_tasks
          /\ \A id \in panicked :
                /\ \A job \in BagToSet(queue) : job.id # id
                /\ \A w \in AllWorkers : wjob[w].id # id)
    /\ \A id \in 1 .. MaxJobs :
          (panicked # {} /\ \E job \in BagToSet(queue) : job.id = id /\ job.time <= MaxTime)
            ~> (id \in cancelled \/ \E w \in AllWorkers : wpc[w] = "run_job" /\ wjob[w].id = id)

\* After a panic, on a pool that is not shut down, every worker is there and
\* one of them runs another closure.
C20_Witness ==
    /\ panicked # {}
    /\ ~shutdown
    /\ Cardinality(LiveWorkers) = helper_tasks
    /\ \E w \in AllWorkers : wpc[w] = "run_job" /\ wjob[w].id \notin panicked

\* ---------------------------------------------------------------- C21

\* A get has something to go on with: a connection is ready while a client
\* is before its pop_front (waiting on cond, about to lock, or with the
\* lock), or a client has taken a connection and is in manager.is_valid.
GetCanGoOn ==
    \/ conns # << >> /\ \E c \in Clients : cpc[c] \in {"get_lock", "get_loop"}
    \/ \E c \in Clients : cpc[c] = "is_valid"

\* A get returns its PooledConnection.
GetReturns == \E c \in Clients : cpc[c] # "held" /\ cpc'[c] = "held"

\* manager.is_valid fails inside a get: the connection the get took is gone.
IsValidFails == errors'.is_valid > errors.is_valid

\* C21: whenever a connection is ready while a client is in get, a get
\* returns a handle in the end, unless the health check of the manager
\* rejects a connection.  That is: the case only ends by the return of a get
\* (or the failure of is_valid), and if it does not end, gets return again
\* and again.  And neither mutex is held for ever.
C21_NoLostWakeupNoDeadlock ==
    /\ [][GetCanGoOn /\ ~GetCanGoOn' => GetReturns \/ IsValidFails]_vars
    /\ <>[](~GetCanGoOn) \/ []<>(<<GetReturns \/ IsValidFails>>_vars)
    /\ []<>(internals = NoThread)
    /\ []<>(inner = NoThread)

\* A connection is ready while one client waits on cond and another, woken
\* or just arrived, is about to lock.
C21_Witness ==
    /\ conns # << >>
    /\ \E c1, c2 \in Clients :
          /\ cpc[c1] = "get_lock" /\ c1 \in cond
          /\ cpc[c2] = "get_lock" /\ c2 \notin cond

\* ---------------------------------------------------------------- C22

\* C22: once shutdown_now has returned no worker takes a job to run, and so
\* the queue holds none.
C22_NothingStartsAfterShutdownNow ==
    /\ [](main_pc = "shut_down" => queue = EmptyBag)
    /\ [][main_pc = "shut_down" => \A w \in AllWorkers : ~Takes(w)]_vars

=============================================================================
